---- MODULE Spec2Model ----
(***************************************************************************)
(* The gpsd wire types of src/types.rs and the serde machinery their       *)
(* derives expand to: field schemas with renames and defaults, untagged    *)
(* enums resolved by ordered first-match, the internally tagged envelope   *)
(* `Response` dispatched on "class", and the derived serialisation of      *)
(* `WatchObject`.                                                          *)
(*                                                                         *)
(* A JSON object is a record [f, arr]: f maps each key that holds a scalar *)
(* to its token (the text of the JSON scalar), arr maps each key that      *)
(* holds an array to the sequence of its element objects.  A key in        *)
(* neither is absent.  Decoded optional values are sequences: << >> is     *)
(* None and <<v>> is Some(v).  f64/f32 values are kept in tenths.          *)
(***************************************************************************)
EXTENDS Integers, Sequences, FiniteSets, TLC

VARIABLES
    wire,    \* the JSON object on the line
    watch,   \* the WatchObject handed to encode: <<w>>, or << >> for a received line
    target,  \* the type the line is (de)serialised as: "Response" or "WatchObject"
    result,  \* what decode returned
    pc       \* "encode", "decode" or "done"

vars == <<wire, watch, target, result, pc>>

----------------------------------------------------------------------------
(* JSON scalars as they appear on the wire *)

JNull == "null"
JTrue == "true"
JFalse == "false"

\* JSON strings are written between single quotes
TimeTokens == {"'2021-01-01T00:00:00Z'", "'2021-01-01T01:00:00+01:00'"}
StrTokens == TimeTokens \cup {"'gps0'", "'N'", "'TPV'", "'3.17'"}
IntTokens == {"0", "1", "2", "3", "300", "9600"}
NumTokens == IntTokens \cup {"0.5", "30.1"}

IntVal(tok) ==
    CASE tok = "0" -> 0
      [] tok = "1" -> 1
      [] tok = "2" -> 2
      [] tok = "3" -> 3
      [] tok = "300" -> 300
      [] tok = "9600" -> 9600

\* a JSON number as a float, in tenths
FloatVal(tok) ==
    CASE tok = "0.5" -> 5
      [] tok = "30.1" -> 301
      [] OTHER -> 10 * IntVal(tok)

StrVal(tok) ==
    CASE tok = "'gps0'" -> "gps0"
      [] tok = "'N'" -> "N"
      [] tok = "'TPV'" -> "TPV"
      [] tok = "'3.17'" -> "3.17"
      [] tok = "'2021-01-01T00:00:00Z'" -> "2021-01-01T00:00:00Z"
      [] tok = "'2021-01-01T01:00:00+01:00'" -> "2021-01-01T01:00:00+01:00"

\* chrono's RFC 3339 parse: the instant (seconds since the epoch) and the offset
TimeVal(tok) ==
    CASE tok = "'2021-01-01T00:00:00Z'" -> [secs |-> 1609459200, offset |-> 0]
      [] tok = "'2021-01-01T01:00:00+01:00'" -> [secs |-> 1609459200, offset |-> 3600]

U8Max == 255
U16Max == 65535

\* whether the primitive type's Deserialize takes the scalar
accepts(ty, tok) ==
    CASE ty = "bool" -> tok \in {JTrue, JFalse}
      [] ty = "String" -> tok \in StrTokens
      [] ty = "DateTime" -> tok \in TimeTokens
      [] ty = "u8" -> tok \in IntTokens /\ IntVal(tok) <= U8Max
      [] ty = "u16" -> tok \in IntTokens /\ IntVal(tok) <= U16Max
      [] ty = "u32" -> tok \in IntTokens
      [] ty \in {"f32", "f64"} -> tok \in NumTokens

parse(ty, tok) ==
    CASE ty = "bool" -> (tok = JTrue)
      [] ty = "String" -> StrVal(tok)
      [] ty = "DateTime" -> TimeVal(tok)
      [] ty \in {"u8", "u16", "u32"} -> IntVal(tok)
      [] ty \in {"f32", "f64"} -> FloatVal(tok)

----------------------------------------------------------------------------
(* Field schemas *)

serde_true == TRUE
serde_false == FALSE

\* kind: "required" (T), "option" (Option<T>), "default" (#[serde(default)]),
\* "vec" (Vec<T>, ty names the element type)
Fld(name, key, ty, kind) == [name |-> name, key |-> key, ty |-> ty, kind |-> kind, dflt |-> FALSE]
FldDefault(name, ty, dflt) == [name |-> name, key |-> name, ty |-> ty, kind |-> "default", dflt |-> dflt]
Req(name, ty) == Fld(name, name, ty, "required")
Opt(name, ty) == Fld(name, name, ty, "option")
ReqAs(name, key, ty) == Fld(name, key, ty, "required")
OptAs(name, key, ty) == Fld(name, key, ty, "option")
Vec(name, ty) == Fld(name, name, ty, "vec")

FixWithCourse == <<
    Opt("device", "String"), Req("time", "DateTime"), Req("mode", "u8"),
    ReqAs("time_err", "ept", "f64"),
    Req("lat", "f64"), OptAs("lat_err", "epy", "f64"),
    Req("lon", "f64"), OptAs("lon_err", "epx", "f64"),
    Opt("alt", "f64"), OptAs("alt_err", "epv", "f64"),
    Req("track", "f64"), OptAs("track_err", "epd", "f64"),
    Req("speed", "f64"), OptAs("speed_err", "eps", "f64"),
    Req("climb", "f64"), OptAs("climb_err", "epc", "f64") >>

FixBasic == <<
    Opt("device", "String"), Req("time", "DateTime"), Req("mode", "u8"),
    ReqAs("time_err", "ept", "f64"),
    Req("lat", "f64"), OptAs("lat_err", "epy", "f64"),
    Req("lon", "f64"), OptAs("lon_err", "epx", "f64"),
    Opt("alt", "f64"), OptAs("alt_err", "epv", "f64"),
    Opt("track", "f64"), OptAs("track_err", "epd", "f64"),
    Opt("speed", "f64"), OptAs("speed_err", "eps", "f64"),
    Opt("climb", "f64"), OptAs("climb_err", "epc", "f64") >>

Basic == <<
    Opt("device", "String"), Opt("time", "DateTime"), Opt("mode", "u8"),
    OptAs("time_err", "ept", "f64"),
    Opt("lat", "f64"), OptAs("lat_err", "epy", "f64"),
    Opt("lon", "f64"), OptAs("lon_err", "epx", "f64"),
    Opt("alt", "f64"), OptAs("alt_err", "epv", "f64"),
    Opt("track", "f64"), OptAs("track_err", "epd", "f64"),
    Opt("speed", "f64"), OptAs("speed_err", "eps", "f64"),
    Opt("climb", "f64"), OptAs("climb_err", "epc", "f64") >>

SatelliteObject == <<
    ReqAs("prn", "PRN", "u16"), ReqAs("azimuth", "az", "u32"),
    ReqAs("elevation", "el", "u32"), ReqAs("signal_strength", "ss", "u32"),
    Req("used", "bool") >>

SkyResponse == <<
    Opt("device", "String"), Opt("time", "DateTime"),
    Opt("xdop", "f32"), Opt("ydop", "f32"), Opt("vdop", "f32"), Opt("tdop", "f32"),
    Opt("hdop", "f32"), Opt("pdop", "f32"), Opt("gdop", "f32"),
    Vec("satellites", "SatelliteObject") >>

ActiveSeenPackets == <<
    Opt("path", "String"), Req("activated", "DateTime"), Req("flags", "u8"),
    Req("driver", "String"), Opt("subtype", "String"), Opt("bps", "u32"),
    Opt("parity", "String"), Opt("stopbits", "String"), Opt("native", "u8"),
    Opt("cycle", "f32"), Opt("minicycle", "f32") >>

Active == <<
    Opt("path", "String"), Req("activated", "DateTime"),
    Opt("subtype", "String"), Opt("bps", "u32"),
    Opt("parity", "String"), Opt("stopbits", "String"), Opt("native", "u8"),
    Opt("cycle", "f32"), Opt("minicycle", "f32") >>

Inactive == << Opt("path", "String") >>

WatchObject == <<
    FldDefault("enable", "bool", serde_true),
    FldDefault("json", "bool", serde_false),
    FldDefault("nmea", "bool", serde_false),
    Opt("raw", "u32"),
    FldDefault("scaled", "bool", serde_false),
    FldDefault("split24", "bool", serde_false),
    FldDefault("pps", "bool", serde_false),
    Opt("device", "String"), Opt("remote", "String") >>

\* impl Default for WatchObject
WatchObject_default ==
    [enable |-> TRUE, json |-> FALSE, nmea |-> FALSE, raw |-> << >>,
     scaled |-> FALSE, split24 |-> FALSE, pps |-> FALSE,
     device |-> << >>, remote |-> << >>]

\* the struct variants of Response
Poll == <<
    Req("time", "DateTime"), Req("active", "u32"),
    Vec("tpv", "TpvResponse"), Vec("sky", "SkyResponse") >>

Devices == << Vec("devices", "DeviceObject"), Opt("remote", "String") >>

Version == <<
    Req("release", "String"), Req("rev", "String"),
    Req("proto_major", "u32"), Req("proto_minor", "u32"),
    Opt("remote", "String") >>

Error == << Req("message", "String") >>

WireKeys(fields) == {fields[i].key : i \in 1..Len(fields)}
FieldNames(fields) == {fields[i].name : i \in 1..Len(fields)}
FieldOf(fields, name) == CHOOSE fd \in {fields[i] : i \in 1..Len(fields)} : fd.name = name
KeyField(fields, key) == CHOOSE fd \in {fields[i] : i \in 1..Len(fields)} : fd.key = key

----------------------------------------------------------------------------
(* Deserialisation of structs: what #[derive(Deserialize)] expands to *)

Ok(v) == [ok |-> TRUE, v |-> v, err |-> ""]
Err(e) == [ok |-> FALSE, v |-> << >>, err |-> e]

Keys(o) == DOMAIN o.f \cup DOMAIN o.arr
Obj(f) == [f |-> f, arr |-> << >>]
Without(o, key) == [f |-> [k \in DOMAIN o.f \ {key} |-> o.f[k]], arr |-> o.arr]

\* a slip: the elements that fail are left out
collect_dropping(rs) ==
    LET RECURSIVE kept(_)
        kept(i) == IF i > Len(rs) THEN << >>
                   ELSE IF rs[i].ok THEN << rs[i].v >> \o kept(i + 1) ELSE kept(i + 1)
    IN  Ok(kept(1))

\* Vec<T> from the results of its elements: the values in input order; one
\* element that fails fails the whole
collect(rs) ==
    IF \A i \in 1..Len(rs) : rs[i].ok
    THEN Ok([i \in 1..Len(rs) |-> rs[i].v])
    ELSE Err("invalid element")

\* a struct without arrays
NoArrays == << >>

\* one field of a struct read from object o; arrays holds, for each key of o
\* that is an array the struct declares, the result of reading it as Vec<T>
field_result(fd, o, arrays) ==
    CASE fd.kind = "vec" ->
            IF fd.key \in DOMAIN arrays THEN arrays[fd.key]
            ELSE IF fd.key \in Keys(o) THEN Err("invalid type")
            ELSE Err("missing field")
      [] fd.kind = "required" ->
            IF fd.key \in DOMAIN o.f
            THEN IF accepts(fd.ty, o.f[fd.key]) THEN Ok(parse(fd.ty, o.f[fd.key]))
                 ELSE Err("invalid type")
            ELSE IF fd.key \in DOMAIN o.arr THEN Err("invalid type")
            ELSE Err("missing field")
      [] fd.kind = "option" ->
            IF fd.key \in DOMAIN o.f
            THEN IF o.f[fd.key] = JNull THEN Ok(<< >>)
                 ELSE IF accepts(fd.ty, o.f[fd.key]) THEN Ok(<< parse(fd.ty, o.f[fd.key]) >>)
                 ELSE Err("invalid type")
            ELSE IF fd.key \in DOMAIN o.arr THEN Err("invalid type")
            ELSE Ok(<< >>)
      [] fd.kind = "default" ->
            IF fd.key \in DOMAIN o.f
            THEN IF accepts(fd.ty, o.f[fd.key]) THEN Ok(parse(fd.ty, o.f[fd.key]))
                 ELSE Err("invalid type")
            ELSE IF fd.key \in DOMAIN o.arr THEN Err("invalid type")
            ELSE Ok(fd.dflt)

\* the derived visitor: keys outside the schema are skipped, or refused under
\* deny_unknown_fields; then every field must have a value.  The error kept is
\* one of those the input has (serde reports the first in input order).
deserialize_struct(fields, deny_unknown_fields, o, arrays) ==
    LET bad == {i \in 1..Len(fields) : ~field_result(fields[i], o, arrays).ok}
    IN  IF deny_unknown_fields /\ ~(Keys(o) \subseteq WireKeys(fields))
        THEN Err("unknown field")
        ELSE IF bad # {}
        THEN Err(field_result(fields[CHOOSE i \in bad : \A j \in bad : i <= j], o, arrays).err)
        ELSE Ok([n \in FieldNames(fields) |-> field_result(FieldOf(fields, n), o, arrays).v])

\* an untagged enum, from the results of reading the buffered object as each
\* variant in declaration order: the first variant that deserialises wins
untagged(variants, rs) ==
    IF \E i \in 1..Len(variants) : rs[i].ok
    THEN LET first == CHOOSE i \in 1..Len(variants) :
                          rs[i].ok /\ \A j \in 1..(i - 1) : ~rs[j].ok
         IN  Ok([shape |-> variants[first], fields |-> rs[first].v])
    ELSE Err("data did not match any variant")

\* a slip: the attribute left off TpvResponse
TpvResponse_allow_unknown_fields == FALSE

\* #[serde(untagged, deny_unknown_fields)] on TpvResponse
TpvResponse_deny_unknown_fields == TRUE

\* slips: the variants declared in another order
TpvResponse_variants_basic_first == << "Basic", "FixBasic", "FixWithCourse" >>
TpvResponse_variants_fix_first == << "FixBasic", "FixWithCourse", "Basic" >>

\* the variants of TpvResponse in declaration order
TpvResponse_variants == << "FixWithCourse", "FixBasic", "Basic" >>

TpvResponse_fields(shape) ==
    CASE shape = "FixWithCourse" -> FixWithCourse
      [] shape = "FixBasic" -> FixBasic
      [] shape = "Basic" -> Basic

\* the variants of DeviceObject in declaration order
DeviceObject_variants == << "ActiveSeenPackets", "Active", "Inactive" >>

\* a slip: the attribute of TpvResponse copied to DeviceObject
DeviceObject_strict == TRUE

\* #[serde(untagged)] on DeviceObject: unknown keys are skipped
DeviceObject_deny_unknown_fields == FALSE

DeviceObject_fields(shape) ==
    CASE shape = "ActiveSeenPackets" -> ActiveSeenPackets
      [] shape = "Active" -> Active
      [] shape = "Inactive" -> Inactive

TpvResponse_deserialize(o) ==
    untagged(TpvResponse_variants,
             [i \in 1..Len(TpvResponse_variants) |->
                deserialize_struct(TpvResponse_fields(TpvResponse_variants[i]),
                                   TpvResponse_deny_unknown_fields, o, NoArrays)])

DeviceObject_deserialize(o) ==
    untagged(DeviceObject_variants,
             [i \in 1..Len(DeviceObject_variants) |->
                deserialize_struct(DeviceObject_fields(DeviceObject_variants[i]),
                                   DeviceObject_deny_unknown_fields, o, NoArrays)])

SatelliteObject_deserialize(o) == deserialize_struct(SatelliteObject, FALSE, o, NoArrays)

\* satellites: Vec<SatelliteObject>
SkyResponse_deserialize(o) ==
    deserialize_struct(SkyResponse, FALSE, o,
        [k \in DOMAIN o.arr \cap {"satellites"} |->
            collect([i \in 1..Len(o.arr[k]) |-> SatelliteObject_deserialize(o.arr[k][i])])])

WatchObject_deserialize(o) == deserialize_struct(WatchObject, FALSE, o, NoArrays)

\* the element types of the arrays of Poll and Devices
deserialize_elem(ty, o) ==
    CASE ty = "TpvResponse" -> TpvResponse_deserialize(o)
      [] ty = "SkyResponse" -> SkyResponse_deserialize(o)
      [] ty = "DeviceObject" -> DeviceObject_deserialize(o)

\* the arrays of object o that the struct declares as Vec<T>, read element by element
deserialize_arrays(fields, o) ==
    [k \in DOMAIN o.arr \cap {fields[i].key : i \in {j \in 1..Len(fields) : fields[j].kind = "vec"}} |->
        collect([i \in 1..Len(o.arr[k]) |-> deserialize_elem(KeyField(fields, k).ty, o.arr[k][i])])]

\* a struct variant of Response
deserialize_variant(fields, o) == deserialize_struct(fields, FALSE, o, deserialize_arrays(fields, o))

----------------------------------------------------------------------------
(* The envelope: #[serde(tag = "class")] enum Response *)

\* a slip: the tag matched without regard to case
Response_variant_caseless(tag) ==
    CASE tag \in {"'TPV'", "'tpv'"} -> "Tpv"
      [] tag = "'SKY'" -> "Sky"
      [] tag = "'POLL'" -> "Poll"
      [] tag = "'DEVICE'" -> "Device"
      [] tag = "'DEVICES'" -> "Devices"
      [] tag = "'WATCH'" -> "Watch"
      [] tag = "'VERSION'" -> "Version"
      [] tag = "'ERROR'" -> "Error"
      [] OTHER -> ""

\* the rename table of the variants: wire tag -> variant
Response_variant(tag) ==
    CASE tag = "'TPV'" -> "Tpv"
      [] tag = "'SKY'" -> "Sky"
      [] tag = "'POLL'" -> "Poll"
      [] tag = "'DEVICE'" -> "Device"
      [] tag = "'DEVICES'" -> "Devices"
      [] tag = "'WATCH'" -> "Watch"
      [] tag = "'VERSION'" -> "Version"
      [] tag = "'ERROR'" -> "Error"
      [] OTHER -> ""

Response_tag(variant) ==
    CASE variant = "Tpv" -> "'TPV'"
      [] variant = "Sky" -> "'SKY'"
      [] variant = "Poll" -> "'POLL'"
      [] variant = "Device" -> "'DEVICE'"
      [] variant = "Devices" -> "'DEVICES'"
      [] variant = "Watch" -> "'WATCH'"
      [] variant = "Version" -> "'VERSION'"
      [] variant = "Error" -> "'ERROR'"

\* the payload of a variant, read from the object without its tag
Response_body(variant, body) ==
    CASE variant = "Tpv" -> TpvResponse_deserialize(body)
      [] variant = "Sky" -> SkyResponse_deserialize(body)
      [] variant = "Poll" -> deserialize_variant(Poll, body)
      [] variant = "Device" -> DeviceObject_deserialize(body)
      [] variant = "Devices" -> deserialize_variant(Devices, body)
      [] variant = "Watch" -> WatchObject_deserialize(body)
      [] variant = "Version" -> deserialize_variant(Version, body)
      [] variant = "Error" -> deserialize_variant(Error, body)

\* the tag is taken out of the object, mapped to its variant, and the rest of
\* the object is handed to the variant's payload
Response_deserialize(o) ==
    IF "class" \notin DOMAIN o.f
    THEN IF "class" \in DOMAIN o.arr THEN Err("invalid type") ELSE Err("missing field class")
    ELSE LET variant == Response_variant(o.f["class"])
         IN  IF variant = ""
             THEN Err("unknown variant")
             ELSE LET r == Response_body(variant, Without(o, "class"))
                  IN  IF r.ok THEN Ok([variant |-> variant, body |-> r.v]) ELSE r

----------------------------------------------------------------------------
(* Serialisation: what #[derive(Serialize)] expands to *)

IntTok(n) ==
    CASE n = 0 -> "0"
      [] n = 1 -> "1"
      [] n = 2 -> "2"
      [] n = 3 -> "3"
      [] n = 300 -> "300"
      [] n = 9600 -> "9600"

StrTok(s) ==
    CASE s = "gps0" -> "'gps0'"
      [] s = "N" -> "'N'"
      [] s = "TPV" -> "'TPV'"
      [] s = "3.17" -> "'3.17'"
      [] s = "2021-01-01T00:00:00Z" -> "'2021-01-01T00:00:00Z'"
      [] s = "2021-01-01T01:00:00+01:00" -> "'2021-01-01T01:00:00+01:00'"

unparse(ty, v) ==
    CASE ty = "bool" -> IF v THEN JTrue ELSE JFalse
      [] ty = "String" -> StrTok(v)
      [] ty \in {"u8", "u16", "u32"} -> IntTok(v)

\* a field is always written: None as null, Some(v) as v
serialize_field(fd, v) ==
    IF fd.kind = "option"
    THEN IF v = << >> THEN JNull ELSE unparse(fd.ty, v[1])
    ELSE unparse(fd.ty, v)

\* a slip: skip_serializing_if on the fields that hold their default or None
serialize_struct_skip_default(fields, value) ==
    LET skipped(fd) == \/ fd.kind = "option" /\ value[fd.name] = << >>
                       \/ fd.kind = "default" /\ value[fd.name] = fd.dflt
    IN  Obj([k \in {x \in WireKeys(fields) : ~skipped(KeyField(fields, x))} |->
                serialize_field(KeyField(fields, k), value[KeyField(fields, k).name])])

\* a slip: skip_serializing_if on the booleans that are false and on None
serialize_struct_skip_false(fields, value) ==
    LET skipped(fd) == \/ fd.kind = "option" /\ value[fd.name] = << >>
                       \/ fd.kind = "default" /\ value[fd.name] = FALSE
    IN  Obj([k \in {x \in WireKeys(fields) : ~skipped(KeyField(fields, x))} |->
                serialize_field(KeyField(fields, k), value[KeyField(fields, k).name])])

\* every field of the struct goes to the wire under its wire key
serialize_struct(fields, value) ==
    Obj([k \in WireKeys(fields) |-> serialize_field(KeyField(fields, k), value[KeyField(fields, k).name])])

WatchObject_serialize(w) == serialize_struct(WatchObject, w)

\* an internally tagged variant writes its tag beside the payload's fields
Response_serialize(variant, body) ==
    [f |-> [k \in DOMAIN body.f \cup {"class"} |->
                IF k = "class" THEN Response_tag(variant) ELSE body.f[k]],
     arr |-> body.arr]

----------------------------------------------------------------------------
(* The two operations on a line of the protocol *)

NoResult == Err("pending")

\* serde_json::from_str on the received line, as a Response or as a bare WatchObject
decode(as, o) ==
    IF as = "Response" THEN Response_deserialize(o)
    ELSE WatchObject_deserialize(o)

\* serde_json::to_string of a WatchObject, bare or as Response::Watch
encode(as, w) ==
    IF as = "Response" THEN Response_serialize("Watch", WatchObject_serialize(w))
    ELSE WatchObject_serialize(w)

Encode ==
    /\ pc = "encode"
    /\ wire' = encode(target, watch[1])
    /\ pc' = "decode"
    /\ UNCHANGED <<watch, target, result>>

Decode ==
    /\ pc = "decode"
    /\ result' = decode(target, wire)
    /\ pc' = "done"
    /\ UNCHANGED <<wire, watch, target>>

----------------------------------------------------------------------------
(* Bounded sets of received lines *)

\* how many keys of a seed object are changed at once
MaxEdits == 2

Absent == "<absent>"

\* a well-formed value for a field of the type
Canon(ty) ==
    CASE ty = "bool" -> JTrue
      [] ty = "String" -> "'gps0'"
      [] ty = "DateTime" -> "'2021-01-01T00:00:00Z'"
      [] ty \in {"u8", "u16", "u32"} -> "3"
      [] ty \in {"f32", "f64"} -> "30.1"

\* the object holding a well-formed value for each of the given scalar keys
Seed(fields, keys) == Obj([k \in keys |-> Canon(KeyField(fields, k).ty)])

\* object o with the keys of K set as v says (removed where v says Absent)
Edited(o, K, v) ==
    [f |-> [k \in (DOMAIN o.f \ K) \cup {x \in K : v[x] # Absent} |->
                IF k \in K THEN v[k] ELSE o.f[k]],
     arr |-> o.arr]

EditSets(keys) == {K \in SUBSET keys : Cardinality(K) <= MaxEdits}

WithClass(o, tag) ==
    [f |-> [k \in DOMAIN o.f \cup {"class"} |-> IF k = "class" THEN tag ELSE o.f[k]],
     arr |-> o.arr]

\* values an edit may give a key: null, a string that is no timestamp, a
\* number too large for u8, or no value at all
EditValues == {JNull, "'gps0'", "300", Absent}

TpvSeeds ==
    { Seed(Basic, WireKeys(Basic)),
      Seed(Basic, {"device", "time", "mode", "ept", "lat", "epy", "lon", "epx", "alt", "epv"}),
      Seed(Basic, {"device", "time", "mode", "ept"}),
      Seed(Basic, {}) }

TpvEditKeys == WireKeys(Basic) \cup {"tag"}

InitTpv ==
    /\ \E seed \in TpvSeeds : \E K \in EditSets(TpvEditKeys) : \E v \in [K -> EditValues] :
          wire = WithClass(Edited(seed, K, v), "'TPV'")
    /\ watch = << >>
    /\ target = "Response"
    /\ result = NoResult
    /\ pc = "decode"

DeviceSeeds ==
    { Seed(ActiveSeenPackets, WireKeys(ActiveSeenPackets)),
      Seed(Active, {"path", "activated", "bps", "parity", "stopbits", "native", "cycle"}),
      Seed(Inactive, {"path"}),
      Seed(Inactive, {}) }

DeviceEditKeys == WireKeys(ActiveSeenPackets) \cup {"tag"}

InitDevice ==
    /\ \E seed \in DeviceSeeds : \E K \in EditSets(DeviceEditKeys) : \E v \in [K -> EditValues] :
          wire = WithClass(Edited(seed, K, v), "'DEVICE'")
    /\ watch = << >>
    /\ target = "Response"
    /\ result = NoResult
    /\ pc = "decode"

\* the largest raw level of a WatchObject to encode
MaxRaw == 2

WatchValues ==
    [enable : BOOLEAN, json : BOOLEAN, nmea : BOOLEAN,
     raw : {<< >>} \cup {<<n>> : n \in 0..MaxRaw},
     scaled : BOOLEAN, split24 : BOOLEAN, pps : BOOLEAN,
     device : {<< >>, <<"gps0">>}, remote : {<< >>, <<"gps0">>}]

WatchSeeds ==
    { Seed(WatchObject, WireKeys(WatchObject)), Seed(WatchObject, {}) }

WatchEditKeys == WireKeys(WatchObject) \cup {"tag"}
WatchEditValues == {JTrue, JFalse, JNull, "1", "'gps0'", Absent}

\* either a WatchObject to encode and read back, or a WATCH line as received
InitWatch ==
    /\ target \in {"Response", "WatchObject"}
    /\ result = NoResult
    /\ \/ /\ watch \in {<<w>> : w \in WatchValues}
          /\ wire = Obj(<< >>)
          /\ pc = "encode"
       \/ /\ watch = << >>
          /\ \E seed \in WatchSeeds : \E K \in EditSets(WatchEditKeys) :
               \E v \in [K -> WatchEditValues] :
                 wire = IF target = "Response"
                        THEN WithClass(Edited(seed, K, v), "'WATCH'")
                        ELSE Edited(seed, K, v)
          /\ pc = "decode"

\* how many entries the tpv, the sky and the devices array of a line hold
MaxTpv == 2
MaxSky == 1

Seqs(S, n) == UNION {[1..m -> S] : m \in 0..n}

With(o, key, tok) ==
    [f |-> [k \in DOMAIN o.f \cup {key} |-> IF k = key THEN tok ELSE o.f[k]], arr |-> o.arr]
WithArr(o, key, items) ==
    [f |-> o.f,
     arr |-> [k \in DOMAIN o.arr \cup {key} |-> IF k = key THEN items ELSE o.arr[k]]]

\* tpv entries of each shape, plain, carrying their own class tag, or a stray key
TpvEntries ==
    LET plain == { Seed(Basic, WireKeys(Basic)),
                   Seed(Basic, {"device", "time", "mode", "ept", "lat", "lon"}),
                   Seed(Basic, {"device", "mode"}) }
    IN  plain \cup {With(o, "class", "'TPV'") : o \in plain}
              \cup {With(o, "tag", "'gps0'") : o \in plain}

Satellite == Seed(SatelliteObject, WireKeys(SatelliteObject))

SkyEntries ==
    { WithArr(Seed(SkyResponse, {"device", "hdop"}), "satellites", << Satellite >>),
      WithArr(Seed(SkyResponse, {"time", "tag"} \cap WireKeys(SkyResponse)), "satellites", << >>),
      Seed(SkyResponse, {"device"}) }

InitPoll ==
    /\ \E top \in {Seed(Poll, {"time", "active"}), Seed(Poll, {"active"})} :
       \E stray \in BOOLEAN :
       \E tpv \in Seqs(TpvEntries, MaxTpv) : \E sky \in Seqs(SkyEntries, MaxSky) :
          wire = WithClass(WithArr(WithArr(IF stray THEN With(top, "tag", "'gps0'") ELSE top,
                                           "tpv", tpv), "sky", sky), "'POLL'")
    /\ watch = << >>
    /\ target = "Response"
    /\ result = NoResult
    /\ pc = "decode"

\* a small well-formed message of every class
EnvelopeSeeds ==
    { WithClass(Seed(Basic, {"time", "mode", "ept", "lat", "lon"}), "'TPV'"),
      WithClass(WithArr(Seed(SkyResponse, {"device", "hdop"}), "satellites", << Satellite >>), "'SKY'"),
      WithClass(WithArr(WithArr(Seed(Poll, {"time", "active"}),
                                "tpv", << Seed(Basic, {"device", "mode"}) >>),
                        "sky", << >>), "'POLL'"),
      WithClass(Seed(ActiveSeenPackets, {"path", "activated", "flags", "driver"}), "'DEVICE'"),
      WithClass(WithArr(Seed(Devices, {"remote"}), "devices",
                        << Seed(Active, {"path", "activated"}), Seed(Inactive, {"path"}) >>),
                "'DEVICES'"),
      WithClass(Seed(WatchObject, {"enable", "json", "device"}), "'WATCH'"),
      WithClass(Seed(Version, {"release", "rev", "proto_major", "proto_minor"}), "'VERSION'"),
      WithClass(Seed(Error, {"message"}), "'ERROR'") }

\* what the class key may hold: the eight tags, other strings, null, or nothing
ClassValues ==
    {"'TPV'", "'SKY'", "'POLL'", "'DEVICE'", "'DEVICES'", "'WATCH'", "'VERSION'", "'ERROR'",
     "'FOO'", "'tpv'", JNull, Absent}

InitEnvelope ==
    /\ \E seed \in EnvelopeSeeds : \E c \in ClassValues \cup {seed.f["class"]} :
       \E K \in EditSets((DOMAIN seed.f \ {"class"}) \cup {"tag"}) : \E v \in [K -> EditValues] :
          wire = Edited(Edited(seed, K, v), {"class"}, [k \in {"class"} |-> c])
    /\ watch = << >>
    /\ target = "Response"
    /\ result = NoResult
    /\ pc = "decode"

NextDecode == Decode

SpecTpv == InitTpv /\ [][NextDecode]_vars

SpecDevice == InitDevice /\ [][NextDecode]_vars

SpecPoll == InitPoll /\ [][NextDecode]_vars

Spec == InitEnvelope /\ [][NextDecode]_vars

Next == Encode \/ Decode

SpecWatch == InitWatch /\ [][Next]_vars

----------------------------------------------------------------------------
(* Properties of the fix-report family, under SpecTpv *)

Done == pc = "done"

HasClass(tag) == "class" \in DOMAIN wire.f /\ wire.f["class"] = tag

\* the keys of the received object beside its tag
BodyKeys == Keys(wire) \ {"class"}

\* the decoded payload has the given shape
ShapeIs(shape) == result.ok /\ result.v.body.shape = shape

TpvFieldSet ==
    {"device", "time", "mode", "ept", "lat", "epy", "lon", "epx",
     "alt", "epv", "track", "epd", "speed", "eps", "climb", "epc"}

CourseFields == {"lat", "lon", "track", "speed", "climb", "time", "mode", "ept"}
FixFields == {"lat", "lon", "mode", "time", "ept"}

\* key k of the received object holds a value of the TPV field's type
TpvValueOk(k) ==
    /\ k \in DOMAIN wire.f
    /\ CASE k = "time" -> wire.f[k] \in TimeTokens
         [] k = "device" -> wire.f[k] \in StrTokens
         [] k = "mode" -> wire.f[k] \in {"0", "1", "2", "3"}
         [] OTHER -> wire.f[k] \in NumTokens

\* beside the keys of R, the object holds only TPV fields, each null or well typed
TpvRestOk(R) ==
    /\ BodyKeys \subseteq TpvFieldSet
    /\ \A k \in BodyKeys \ R : k \in DOMAIN wire.f /\ (wire.f[k] = JNull \/ TpvValueOk(k))

\* C1 as stated: every TPV object that contains lat, lon, track, speed, climb,
\* time, mode and ept decodes to FixWithCourse.
C1_AsStated ==
    (Done /\ HasClass("'TPV'") /\ CourseFields \subseteq BodyKeys) => ShapeIs("FixWithCourse")

\* C1, amended: a TPV object holding lat, lon, track, speed, climb, time, mode
\* and ept with values of their types decodes to FixWithCourse when its other
\* keys are TPV fields holding null or a value of their type, and to an error
\* otherwise; never to FixBasic or Basic.
C1_FixWithCourse ==
    (Done /\ HasClass("'TPV'") /\ \A k \in CourseFields : TpvValueOk(k))
        => IF TpvRestOk(CourseFields) THEN ShapeIs("FixWithCourse") ELSE ~result.ok

C1_Witness ==
    /\ Done /\ HasClass("'TPV'") /\ \A k \in CourseFields : TpvValueOk(k)
    /\ "epy" \notin BodyKeys /\ "alt" \in BodyKeys
    /\ ShapeIs("FixWithCourse")
    /\ result.v.body.fields.lat = 301 /\ result.v.body.fields.alt = << 301 >>

\* C3 as stated: every TPV object that lacks one of track, speed, climb and
\* contains lat, lon, mode, time and ept decodes to FixBasic.
C3_AsStated ==
    (Done /\ HasClass("'TPV'") /\ FixFields \subseteq BodyKeys
          /\ \E k \in {"track", "speed", "climb"} : k \notin BodyKeys)
        => ShapeIs("FixBasic")

\* C3, amended: a TPV object lacking one of track, speed, climb and holding
\* lat, lon, mode, time and ept with values of their types decodes to FixBasic
\* when its other keys are TPV fields holding null or a value of their type,
\* and to an error otherwise; never to FixWithCourse or Basic.
C3_FixBasic ==
    (Done /\ HasClass("'TPV'") /\ (\A k \in FixFields : TpvValueOk(k))
          /\ \E k \in {"track", "speed", "climb"} : k \notin BodyKeys)
        => IF TpvRestOk(FixFields) THEN ShapeIs("FixBasic") ELSE ~result.ok

C3_Witness ==
    /\ Done /\ HasClass("'TPV'") /\ \A k \in FixFields : TpvValueOk(k)
    /\ "track" \notin BodyKeys /\ "speed" \in BodyKeys /\ TpvValueOk("speed")
    /\ ShapeIs("FixBasic")
    /\ result.v.body.fields.track = << >> /\ result.v.body.fields.speed = << 301 >>

\* C9: a TPV object holding a key outside the TPV field set is an error,
\* whichever required fields it holds; it is never decoded as a looser shape.
C9_NoDowngrade ==
    (Done /\ HasClass("'TPV'") /\ ~(BodyKeys \subseteq TpvFieldSet)) => ~result.ok

C9_Witness ==
    /\ Done /\ HasClass("'TPV'") /\ "tag" \in BodyKeys
    /\ \A k \in CourseFields : TpvValueOk(k)
    /\ TpvFieldSet \subseteq BodyKeys
    /\ ~result.ok

----------------------------------------------------------------------------
(* Properties of the device family, under SpecDevice *)

\* C4: a device object with activated present and driver or flags absent
\* decodes to Active; ActiveSeenPackets needs activated, flags and driver.
C4_AsStated ==
    (Done /\ HasClass("'DEVICE'"))
        => /\ ("activated" \in BodyKeys /\ ~({"driver", "flags"} \subseteq BodyKeys))
                => ShapeIs("Active")
           /\ ShapeIs("ActiveSeenPackets") => {"activated", "flags", "driver"} \subseteq BodyKeys

\* C5: a device object decodes to Inactive only when it has no activated key.
C5_AsStated ==
    (Done /\ HasClass("'DEVICE'") /\ "activated" \in BodyKeys) => ~ShapeIs("Inactive")

----------------------------------------------------------------------------
(* Properties of the watch configuration, under SpecWatch *)

WatchFlags == {"enable", "json", "nmea", "scaled", "split24", "pps"}
WatchOptions == {"raw", "device", "remote"}
WatchFieldSet == WatchFlags \cup WatchOptions

\* the line on the wire was written by encode
Encoded == pc # "encode" /\ watch # << >>

\* the WatchObject that decode returned
Decoded == IF target = "Response" THEN result.v.body ELSE result.v

\* C7 as stated: encode leaves out every field that holds its default (false,
\* or absent) and always writes enable.
C7_AsStated ==
    Encoded => /\ "enable" \in BodyKeys
               /\ \A k \in WatchFlags \ {"enable"} : watch[1][k] = FALSE => k \notin BodyKeys
               /\ \A k \in WatchOptions : watch[1][k] = << >> => k \notin BodyKeys

\* C7, amended: encode writes all nine fields of a WatchObject whatever their
\* values, a boolean as true or false and an absent raw, device or remote as
\* null; nothing is left out.
C7_AllFieldsWritten ==
    Encoded => /\ BodyKeys = WatchFieldSet
               /\ BodyKeys \subseteq DOMAIN wire.f
               /\ \A k \in WatchFlags : wire.f[k] = IF watch[1][k] THEN "true" ELSE "false"
               /\ \A k \in WatchOptions : (wire.f[k] = "null") <=> (watch[1][k] = << >>)

C7_Witness ==
    /\ Encoded /\ watch[1] = WatchObject_default
    /\ Cardinality(BodyKeys) = 9 /\ wire.f["json"] = "false" /\ wire.f["raw"] = "null"

\* C8: decoding what encode wrote succeeds and gives back the WatchObject field
\* by field; a field a received line leaves out decodes to its default.
C8_RoundTrip ==
    /\ (Done /\ watch # << >>)
          => /\ result.ok
             /\ target = "Response" => result.v.variant = "Watch"
             /\ \A n \in WatchFieldSet : Decoded[n] = watch[1][n]
    /\ (Done /\ watch = << >> /\ result.ok)
          => \A n \in WatchFieldSet \ BodyKeys : Decoded[n] = WatchObject_default[n]

C8_Witness ==
    /\ Done /\ watch # << >> /\ target = "Response"
    /\ watch[1].enable = FALSE /\ watch[1].raw = << 2 >> /\ watch[1].device = << "gps0" >>
    /\ result.ok /\ Decoded.enable = FALSE /\ Decoded.raw = << 2 >>

----------------------------------------------------------------------------
(* Properties of POLL, under SpecPoll *)

\* the shape of a tpv entry by the fields it holds
ExpectedShape(o) ==
    IF CourseFields \subseteq DOMAIN o.f THEN "FixWithCourse"
    ELSE IF FixFields \subseteq DOMAIN o.f THEN "FixBasic"
    ELSE "Basic"

\* C10: a POLL line decodes only if every tpv entry holds no key outside the
\* TPV field set (its own class key included); when it decodes, the tpv and
\* sky sequences keep the order of the line and each entry its shape.
C10_PollStrict ==
    (Done /\ HasClass("'POLL'") /\ {"tpv", "sky"} \subseteq DOMAIN wire.arr)
        => LET tpv == wire.arr["tpv"]
               sky == wire.arr["sky"]
           IN  /\ (\E i \in 1..Len(tpv) : ~(Keys(tpv[i]) \subseteq TpvFieldSet)) => ~result.ok
               /\ result.ok
                    => /\ result.v.variant = "Poll"
                       /\ Len(result.v.body.tpv) = Len(tpv)
                       /\ \A i \in 1..Len(tpv) :
                             result.v.body.tpv[i].shape = ExpectedShape(tpv[i])
                       /\ Len(result.v.body.sky) = Len(sky)
                       /\ \A i \in 1..Len(sky) :
                             /\ ("device" \in Keys(sky[i])) = (result.v.body.sky[i].device # << >>)
                             /\ Len(result.v.body.sky[i].satellites) = Len(sky[i].arr["satellites"])

C10_Witness ==
    /\ Done /\ HasClass("'POLL'") /\ {"time", "active"} \subseteq BodyKeys
    /\ wire.arr["sky"] = << >> /\ Len(wire.arr["tpv"]) = 2
    /\ Keys(wire.arr["tpv"][1]) \subseteq TpvFieldSet
    /\ Keys(wire.arr["tpv"][2]) \ TpvFieldSet = {"class"}
    /\ ~result.ok

----------------------------------------------------------------------------
(* Properties of the envelope, under Spec *)

EightTags ==
    {"'TPV'", "'SKY'", "'POLL'", "'DEVICE'", "'DEVICES'", "'WATCH'", "'VERSION'", "'ERROR'"}

ExpectedVariant(tag) ==
    CASE tag = "'TPV'" -> "Tpv"
      [] tag = "'SKY'" -> "Sky"
      [] tag = "'POLL'" -> "Poll"
      [] tag = "'DEVICE'" -> "Device"
      [] tag = "'DEVICES'" -> "Devices"
      [] tag = "'WATCH'" -> "Watch"
      [] tag = "'VERSION'" -> "Version"
      [] tag = "'ERROR'" -> "Error"

TaggedKnown == "class" \in DOMAIN wire.f /\ wire.f["class"] \in EightTags

\* C2: a decoded line has the variant its class names; a line whose class is
\* absent or is none of the eight tags is an error.
C2_Dispatch ==
    Done => IF TaggedKnown
            THEN result.ok => result.v.variant = ExpectedVariant(wire.f["class"])
            ELSE ~result.ok

C2_Witness ==
    /\ Done /\ HasClass("'FOO'") /\ BodyKeys = {"message"}
    /\ ~result.ok /\ result.err = "unknown variant"

\* the keys the schema of a class defines
ClassKeys(tag) ==
    CASE tag = "'TPV'" -> WireKeys(FixWithCourse)
      [] tag = "'SKY'" -> WireKeys(SkyResponse)
      [] tag = "'POLL'" -> WireKeys(Poll)
      [] tag = "'DEVICE'" -> WireKeys(ActiveSeenPackets)
      [] tag = "'DEVICES'" -> WireKeys(Devices)
      [] tag = "'WATCH'" -> WireKeys(WatchObject)
      [] tag = "'VERSION'" -> WireKeys(Version)
      [] tag = "'ERROR'" -> WireKeys(Error)

\* the line holds a key its class's schema does not define
StrayKey == TaggedKnown /\ ~(BodyKeys \subseteq ClassKeys(wire.f["class"]))

Restricted(o, keys) ==
    [f |-> [k \in DOMAIN o.f \cap keys |-> o.f[k]],
     arr |-> [k \in DOMAIN o.arr \cap keys |-> o.arr[k]]]

====
